---- MODULE Spec2Model ----
(***************************************************************************)
(* SlicerCommandLine (nipype/interfaces/slicer.py): an interface whose     *)
(* input fields are compiled, at construction, from the XML description a  *)
(* Slicer module prints for --xml.                                         *)
(*                                                                         *)
(* Text is modelled by TLA+ strings and real concatenation.  The text of   *)
(* an <index> child is kept as the sequence of its decimal digits, so that *)
(* the string "10" is <<1, 0>> and can be compared as a string.  A list    *)
(* returned by getElementsByTagName is a sequence: <<>> when the child is  *)
(* absent, <<text>> when it is present.                                    *)
(***************************************************************************)
EXTENDS Integers, Sequences, FiniteSets, TLC

VARIABLES
    dom,                \* the child nodes of the <parameters> groups read so far
    status,             \* "constructing", "ready" or "failed" (__init__ raised)
    error,              \* the exception __init__ raised, "" when none
    traits,             \* self.inputs: name -> the trait added by add_trait
    inputs,             \* self.inputs: name -> current value
    undefined_traits,   \* the local dict of __init__: the names it holds
    _outputs_filenames, \* self._outputs_filenames: name -> path
    _outputs_nodes,     \* self._outputs_nodes: list of nodes
    test,               \* the caller's variable: "unbound" or "bound"
    cwd,                \* the process's current working directory
    ret                 \* what the caller's last call returned

vars == <<dom, status, error, traits, inputs, undefined_traits,
          _outputs_filenames, _outputs_nodes, test, cwd, ret>>

\* The longest document read.
MaxNodes == 2

----------------------------------------------------------------------------
(* Values                                                                  *)

Undefined == [t |-> "undef"]
VBool(b) == [t |-> "bool", b |-> b]
VStr(s) == [t |-> "str", s |-> s]
VInt(i) == [t |-> "int", i |-> i]

\* The value a trait holds between add_trait and the first assignment: the
\* trait type's own default (0, '', False, ...), which is not Undefined.
TraitDefault == [t |-> "default"]

isdefined(v) == v # Undefined
isbool(v) == v.t = "bool"

\* A mapping with no keys.
EmptyDict == [n \in {} |-> Undefined]

\* d[k] = v of a Python dict.
DictSet(d, k, v) == [n \in (DOMAIN d) \cup {k} |-> IF n = k THEN v ELSE d[n]]

----------------------------------------------------------------------------
(* The tables of __init__ and _gen_filename_from_param                     *)

SkippedNodeNames == {"label", "description", "#text", "#comment"}

argsDict ==
    [k \in {"file", "integer", "double", "float", "image", "transform",
            "boolean", "string-enumeration", "string"} |->
        CASE k = "integer" -> "%d"
          [] k \in {"double", "float"} -> "%f"
          [] k = "boolean" -> ""
          [] OTHER -> "%s"]

typesDict ==
    [k \in {"integer", "double", "float", "image", "transform", "boolean",
            "string", "file"} |->
        CASE k = "integer" -> "Int"
          [] k \in {"double", "float"} -> "Float"
          [] k = "boolean" -> "Bool"
          [] k = "string" -> "Str"
          [] OTHER -> "File"]

FileNodeNames == {"file", "directory", "image", "transform"}

extDict ==
    [k \in {"image", "transform", "file"} |->
        CASE k = "image" -> ".nii"
          [] k = "transform" -> ".txt"
          [] OTHER -> ""]

\* The node names a Slicer description uses for scalar parameters.
ScalarNodeNames ==
    {"integer", "float", "double", "boolean", "string", "string-enumeration",
     "file", "directory", "image", "transform"}

\* nodeName.endswith('-vector')
endswith_vector(nodeName) == \E b \in ScalarNodeNames : nodeName = b \o "-vector"

\* nodeName[:-7] of a name that ends with '-vector'
strip_vector(nodeName) == CHOOSE b \in ScalarNodeNames : nodeName = b \o "-vector"

\* The key looked up in argsDict and typesDict.
tableKey(nodeName) ==
    IF endswith_vector(nodeName) THEN strip_vector(nodeName) ELSE nodeName

\* os.path.abspath of a relative path.
abspath(dir, p) == dir \o "/" \o p

----------------------------------------------------------------------------
(* One iteration of the loop of __init__ (lines 41-97), on one child node  *)

\* param.getElementsByTagName('name')[0].firstChild.nodeValue
nameOf(param) == param.name[1]

\* traitsParams["argstr"]: the flag, then the format appended to it.
argstrOf(param) ==
    << "--" \o (IF param.longflag # <<>> THEN param.longflag[1] ELSE nameOf(param)) \o " ",
       argsDict[tableKey(param.nodeName)] >>

\* sepOf with the separator set for every kind.
sepOf_everyKind(param) == <<",">>

\* traitsParams["sep"]
sepOf(param) == IF endswith_vector(param.nodeName) THEN <<",">> ELSE <<>>

\* traitsParams["desc"], set under "if index:"
descOf(param) == IF param.index # <<>> THEN <<param.description[1]>> ELSE <<>>

\* The trait type and its positional arguments (type, values).
typeOf(param) ==
    IF param.nodeName = "string-enumeration" THEN "Enum"
    ELSE IF endswith_vector(param.nodeName) THEN "List"
    ELSE typesDict[param.nodeName]

valuesOf(param) ==
    IF param.nodeName = "string-enumeration" THEN param.element
    ELSE IF endswith_vector(param.nodeName)
         THEN <<typesDict[strip_vector(param.nodeName)]>>
         ELSE <<>>

\* The condition of line 85.
isOutputParam(param) ==
    param.nodeName \in FileNodeNames /\ param.channel[1] = "output"

\* _gen_filename_from_param
_gen_filename_from_param(param, dir) ==
    LET base == nameOf(param)
        ext  == IF param.fileExtensions # "" THEN param.fileExtensions
                ELSE extDict[param.nodeName]
    IN  abspath(dir, base \o ext)

\* The trait passed to self.inputs.add_trait (lines 86 and 96).
inputTrait(param) ==
    IF isOutputParam(param)
    THEN [type |-> "Either", values |-> <<"Bool", "File">>,
          argstr |-> argstrOf(param), position |-> param.index,
          desc |-> descOf(param), sep |-> sepOf(param), exists |-> FALSE]
    ELSE [type |-> typeOf(param), values |-> valuesOf(param),
          argstr |-> argstrOf(param), position |-> param.index,
          desc |-> descOf(param), sep |-> sepOf(param),
          exists |-> (param.nodeName \in FileNodeNames)]

\* The exception one iteration raises, "" when it raises none: the first
\* list index or dict lookup that fails, in the order the lines run.
paramError(param) ==
    IF param.name = <<>> THEN "IndexError"                                \* line 46
    ELSE IF tableKey(param.nodeName) \notin DOMAIN argsDict
         THEN "KeyError"                                                  \* lines 58, 60
    ELSE IF param.index # <<>> /\ param.description = <<>>
         THEN "IndexError"                                                \* line 68
    ELSE IF param.nodeName # "string-enumeration"
            /\ tableKey(param.nodeName) \notin DOMAIN typesDict
         THEN "KeyError"                                                  \* lines 79, 83
    ELSE IF param.nodeName \in FileNodeNames /\ param.channel = <<>>
         THEN "IndexError"                                                \* line 85
    ELSE IF isOutputParam(param) /\ param.fileExtensions = ""
            /\ param.nodeName \notin DOMAIN extDict
         THEN "KeyError"                                                  \* line 112
    ELSE ""

\* RaiseFromInit with the exception swallowed and the half-built object
\* handed to the caller.
RaiseFromInit_objectKept(e) ==
    /\ status' = "failed"
    /\ error' = e
    /\ test' = "bound"
    /\ UNCHANGED <<traits, inputs, undefined_traits, _outputs_filenames,
                   _outputs_nodes, cwd, ret>>

\* An exception leaves __init__: the caller's assignment never happens and
\* the half-built object is dropped.
RaiseFromInit(e) ==
    /\ status' = "failed"
    /\ error' = e
    /\ UNCHANGED <<traits, inputs, undefined_traits, _outputs_filenames,
                   _outputs_nodes, test, cwd, ret>>

\* The body of the loop for a node that raises nothing.
AddParam(param) ==
    LET name == nameOf(param) IN
    /\ traits' = DictSet(traits, name, inputTrait(param))
    /\ inputs' = DictSet(inputs, name, TraitDefault)
    /\ undefined_traits' = DictSet(undefined_traits, name, Undefined)
    /\ IF isOutputParam(param)
       THEN /\ _outputs_filenames' =
                  DictSet(_outputs_filenames, name, _gen_filename_from_param(param, cwd))
            /\ _outputs_nodes' = Append(_outputs_nodes, param)
       ELSE UNCHANGED <<_outputs_filenames, _outputs_nodes>>
    /\ UNCHANGED <<status, error, test, cwd, ret>>

\* The loop reads the next child node of the document, drawn from S.
ParseParam(S) ==
    /\ status = "constructing"
    /\ Len(dom) < MaxNodes
    /\ \E param \in S :
        /\ dom' = Append(dom, param)
        /\ IF param.nodeName \in SkippedNodeNames
           THEN UNCHANGED <<status, error, traits, inputs, undefined_traits,
                            _outputs_filenames, _outputs_nodes, test, cwd, ret>>
           ELSE IF paramError(param) # ""
                THEN RaiseFromInit(paramError(param))
                ELSE AddParam(param)

\* trait_set with line 99 left out.
trait_set_skipped(values, d) == values

\* self.inputs.trait_set(trait_change_notify=False, **undefined_traits)
trait_set(values, d) ==
    [n \in DOMAIN values |-> IF n \in DOMAIN d THEN d[n] ELSE values[n]]

\* The document ends: line 99 runs, __init__ returns, the caller binds the
\* object.
FinishInit ==
    /\ status = "constructing"
    /\ status' = "ready"
    /\ inputs' = trait_set(inputs, undefined_traits)
    /\ test' = "bound"
    /\ UNCHANGED <<dom, error, traits, undefined_traits, _outputs_filenames,
                   _outputs_nodes, cwd, ret>>

----------------------------------------------------------------------------
(* The calls of a caller that holds the object                             *)

\* The values a trait accepts on assignment.
validValues(trait) ==
    CASE trait.type = "Either" -> {VBool(TRUE), VBool(FALSE), VStr("/data/out.mat")}
      [] trait.type = "File"   -> {VStr("/a.nii")}
      [] trait.type = "Str"    -> {VStr("Affine")}
      [] trait.type = "Int"    -> {VInt(3)}
      [] trait.type = "Bool"   -> {VBool(TRUE), VBool(FALSE)}
      [] trait.type = "Enum"   -> {VStr(trait.values[i]) : i \in DOMAIN trait.values}
      [] OTHER                 -> {}

\* test.inputs.<name> = value
SetInput ==
    /\ test = "bound"
    /\ \E name \in DOMAIN traits :
       \E value \in validValues(traits[name]) \cup {Undefined} :
        /\ inputs' = [inputs EXCEPT ![name] = value]
        /\ ret' = [op |-> "set"]
    /\ UNCHANGED <<dom, status, error, traits, undefined_traits,
                   _outputs_filenames, _outputs_nodes, test, cwd>>

\* getattr(test.inputs, name)
GetInput ==
    /\ test = "bound"
    /\ \E name \in DOMAIN traits :
        ret' = [op |-> "get", name |-> name, val |-> inputs[name]]
    /\ UNCHANGED <<dom, status, error, traits, inputs, undefined_traits,
                   _outputs_filenames, _outputs_nodes, test, cwd>>

\* os.chdir by the caller (a workflow engine runs each node in its own
\* directory).
StartDir == "/home/filo"

Dirs == {StartDir, "/tmp/work"}

Chdir ==
    /\ test = "bound"
    /\ \E d \in Dirs \ {cwd} : cwd' = d
    /\ ret' = [op |-> "chdir"]
    /\ UNCHANGED <<dom, status, error, traits, inputs, undefined_traits,
                   _outputs_filenames, _outputs_nodes, test>>

\* _gen_filename computing the name again on every call instead of reading
\* the cache.
_gen_filename_recomputed(name) ==
    LET i == CHOOSE k \in DOMAIN _outputs_nodes : nameOf(_outputs_nodes[k]) = name
    IN  _gen_filename_from_param(_outputs_nodes[i], cwd)

\* _gen_filename; the None of line 104 is the text "None" once formatted.
_gen_filename(name) ==
    IF name \in DOMAIN _outputs_filenames THEN _outputs_filenames[name] ELSE "None"

\* The names of self._outputs_nodes (lines 118 and 128).
outputNames == {nameOf(_outputs_nodes[i]) : i \in DOMAIN _outputs_nodes}

\* _list_outputs_value treating every boolean as _format_arg does.
_list_outputs_value_anyBool(name) ==
    LET v == inputs[name] IN
    IF isdefined(v) /\ isbool(v) THEN VStr(_outputs_filenames[name]) ELSE v

\* The value _list_outputs gives one output (lines 119-124).
_list_outputs_value(name) ==
    LET v == inputs[name] IN
    IF isdefined(v) /\ isbool(v)
    THEN IF v.b THEN VStr(_gen_filename(name)) ELSE Undefined
    ELSE v

\* _list_outputs: output_spec().get() has no entry of its own.
_list_outputs == [name \in outputNames |-> _list_outputs_value(name)]

ListOutputs ==
    /\ test = "bound"
    /\ ret' = [op |-> "list_outputs", val |-> _list_outputs]
    /\ UNCHANGED <<dom, status, error, traits, inputs, undefined_traits,
                   _outputs_filenames, _outputs_nodes, test, cwd>>

\* argstr % value
percent(argstr, value) ==
    argstr[1] \o (CASE argstr[2] = "" -> ""
                    [] value.t = "str" -> value.s
                    [] value.t = "int" -> ToString(value.i)
                    [] OTHER -> "")

\* CommandLine._format_arg, for the parameters that are no outputs.
base_format_arg(name, spec, value) == percent(spec.argstr, value)

\* SlicerCommandLine._format_arg
_format_arg(name, spec, value) ==
    IF name \in outputNames
    THEN LET fname == IF isbool(value) THEN VStr(_gen_filename(name)) ELSE value
         IN  percent(spec.argstr, fname)
    ELSE base_format_arg(name, spec, value)

\* Comparison of two texts of <index> children, as Python compares strings.
RECURSIVE textLess(_, _)
textLess(a, b) ==
    IF a = <<>> THEN b # <<>>
    ELSE IF b = <<>> THEN FALSE
    ELSE IF a[1] # b[1] THEN a[1] < b[1]
    ELSE textLess(Tail(a), Tail(b))

\* The names in declaration order: the order add_trait was called in.
RECURSIVE declared(_)
declared(nodes) ==
    IF nodes = <<>> THEN <<>>
    ELSE IF nodes[1].nodeName \in SkippedNodeNames THEN declared(Tail(nodes))
    ELSE <<nameOf(nodes[1])>> \o declared(Tail(nodes))

\* Insertion of a name into a list sorted by position.
RECURSIVE insertByPosition(_, _)
insertByPosition(name, sorted) ==
    IF sorted = <<>> THEN <<name>>
    ELSE IF textLess(traits[name].position[1], traits[sorted[1]].position[1])
         THEN <<name>> \o sorted
         ELSE <<sorted[1]>> \o insertByPosition(name, Tail(sorted))

RECURSIVE sortByPosition(_)
sortByPosition(names) ==
    IF names = <<>> THEN <<>>
    ELSE insertByPosition(names[Len(names)], sortByPosition(SubSeq(names, 1, Len(names) - 1)))

\* CommandLine._parse_inputs: the defined inputs, positional ones first by
\* ascending position, then the flagged ones in declaration order.
_parse_inputs ==
    LET set        == SelectSeq(declared(dom), LAMBDA n : isdefined(inputs[n]))
        positional == SelectSeq(set, LAMBDA n : traits[n].position # <<>>)
        flagged    == SelectSeq(set, LAMBDA n : traits[n].position = <<>>)
        order      == sortByPosition(positional) \o flagged
    IN  [i \in DOMAIN order |->
            [name |-> order[i],
             arg  |-> _format_arg(order[i], traits[order[i]], inputs[order[i]])]]

\* test.cmdline
Cmdline ==
    /\ test = "bound"
    /\ ret' = [op |-> "cmdline", val |-> _parse_inputs]
    /\ UNCHANGED <<dom, status, error, traits, inputs, undefined_traits,
                   _outputs_filenames, _outputs_nodes, test, cwd>>

----------------------------------------------------------------------------
(* The documents                                                           *)

\* The parameter names of the BRAINSFit example (lines 138-141); the node
\* read at position i is named ParamNames[i], so names are unique.
ParamNames == <<"outputTransform", "fixedVolume", "movingVolume", "transformType">>

NextName == ParamNames[Len(dom) + 1]

Node(nodeName, name, longflag, index, description, channel, element, fileExtensions) ==
    [nodeName |-> nodeName, name |-> name, longflag |-> longflag, index |-> index,
     description |-> description, channel |-> channel, element |-> element,
     fileExtensions |-> fileExtensions]

VectorNodeNames == {b \o "-vector" : b \in ScalarNodeNames}

\* A node with a name and a description and nothing else optional; a file
\* node carries <channel>input</channel>, an enumeration one element.
PlainNode(nodeName, nm) ==
    Node(nodeName, <<nm>>, <<>>, <<>>, <<"text">>,
         IF nodeName \in FileNodeNames THEN <<"input">> ELSE <<>>,
         IF nodeName = "string-enumeration" THEN <<"Affine">> ELSE <<>>, "")

\* The nodes of the documents the compiler is checked on.
SchemaNodes(nm) ==
    \* every kind, plain; the skipped node names have no children
    {PlainNode(k, nm) : k \in ScalarNodeNames \cup VectorNodeNames}
    \cup {Node(k, <<>>, <<>>, <<>>, <<>>, <<>>, <<>>, "") : k \in SkippedNodeNames}
    \* every combination of the optional children, on a scalar and on a file kind
    \cup {Node(k, <<nm>>, lf, ix, ds, ch, <<>>, "") :
            k \in {"integer", "image"}, lf \in {<<>>, <<"flag">>},
            ix \in {<<>>, <<<<2>>>>}, ds \in {<<>>, <<"text">>},
            ch \in {<<>>, <<"input">>, <<"output">>}}
    \* a two-digit index
    \cup {Node(k, <<nm>>, <<>>, <<<<1, 0>>>>, <<"text">>, <<"input">>, <<>>, "") :
            k \in {"string", "image"}}
    \* outputs of every file kind, with and without fileExtensions
    \cup {Node(k, <<nm>>, <<>>, <<>>, <<"text">>, <<"output">>, <<>>, ext) :
            k \in FileNodeNames, ext \in {"", ".mat"}}
    \* enumerations of zero, one and two elements
    \cup {Node("string-enumeration", <<nm>>, <<>>, <<>>, <<"text">>, <<>>, el, "") :
            el \in {<<>>, <<"Rigid">>, <<"Rigid", "Affine">>}}
    \* a parameter node without a name
    \cup {Node("integer", <<>>, <<>>, <<>>, <<"text">>, <<>>, <<>>, "")}

\* The nodes of the documents the calls are checked on.
RunNodes(nm) ==
    {PlainNode(k, nm) : k \in {"image", "integer"}}
    \cup {Node("string", <<nm>>, <<>>, <<ix>>, <<"text">>, <<>>, <<>>, "") :
            ix \in {<<0>>, <<1>>, <<2>>, <<1, 0>>}}
    \cup {Node(k, <<nm>>, <<>>, <<>>, <<"text">>, <<"output">>, <<>>, "") :
            k \in {"image", "transform"}}
    \cup {Node("file", <<nm>>, <<>>, <<>>, <<"text">>, <<"output">>, <<>>, ".mat")}
    \cup {Node("integer", <<>>, <<>>, <<>>, <<"text">>, <<>>, <<>>, "")}

----------------------------------------------------------------------------
(* The specifications                                                      *)

\* Line 38 is reached: the document is fetched and nothing compiled yet.
Init ==
    /\ dom = <<>>
    /\ status = "constructing"
    /\ error = ""
    /\ traits = EmptyDict
    /\ inputs = EmptyDict
    /\ undefined_traits = EmptyDict
    /\ _outputs_filenames = EmptyDict
    /\ _outputs_nodes = <<>>
    /\ test = "unbound"
    /\ cwd = StartDir
    /\ ret = [op |-> "none"]

ParseRunParam == ParseParam(RunNodes(NextName))

ParseSchemaParam == ParseParam(SchemaNodes(NextName))

Next ==
    \/ ParseRunParam
    \/ FinishInit
    \/ SetInput
    \/ GetInput
    \/ Chdir
    \/ ListOutputs
    \/ Cmdline

\* Construction followed by the caller's calls.
Spec == Init /\ [][Next]_vars

NextSchema ==
    \/ ParseSchemaParam
    \/ FinishInit

\* Construction alone, on the wide set of documents.
SpecSchema == Init /\ [][NextSchema]_vars

----------------------------------------------------------------------------
(* What the claims speak of                                                *)

\* The positions of dom that hold parameter nodes the loop compiled: the
\* skipped node names are no parameters, and the node that raised is not
\* compiled.
compiledAt ==
    {i \in DOMAIN dom :
        /\ dom[i].nodeName \notin SkippedNodeNames
        /\ ~(status = "failed" /\ i = Len(dom))}

\* The name of the node read at position i.
nameAt(i) == ParamNames[i]

\* The output descriptors, read off the document.
outputDescriptors ==
    {nameAt(i) : i \in {k \in compiledAt :
        dom[k].nodeName \in FileNodeNames /\ dom[k].channel = <<"output">>}}

\* The arguments a synthesized command line holds for one parameter.
argsFor(cmd, name) == {cmd[i].arg : i \in {k \in DOMAIN cmd : cmd[k].name = name}}

\* The number a text of decimal digits denotes.
RECURSIVE numberOf(_)
numberOf(digits) ==
    IF digits = <<>> THEN 0
    ELSE 10 * numberOf(SubSeq(digits, 1, Len(digits) - 1)) + digits[Len(digits)]

\* The position in the document of the parameter called name.
declaredAt(name) == CHOOSE i \in DOMAIN ParamNames : ParamNames[i] = name

----------------------------------------------------------------------------
(* C1                                                                      *)

\* C1: on a synthesized command line, an output parameter set to true gives
\* its flag followed by the cached default filename, one set to false gives
\* no argument at all, and one set to a string gives its flag followed by
\* that string.
C1_FormatOutputArg ==
    ret.op = "cmdline" =>
        \A name \in outputDescriptors :
            LET v    == inputs[name]
                flag == "--" \o name \o " "
                args == argsFor(ret.val, name)
            IN  /\ v = VBool(TRUE)  => args = {flag \o _outputs_filenames[name]}
                /\ v = VBool(FALSE) => args = {}
                /\ v.t = "str"      => args = {flag \o v.s}

----------------------------------------------------------------------------
(* C2                                                                      *)

\* C2: _list_outputs gives, for every output descriptor, the cached default
\* filename when the input is true, Undefined when the input is false or
\* was never set, and the input's own value when it is a path.
C2_ListOutputsResolved ==
    ret.op = "list_outputs" =>
        /\ outputDescriptors \subseteq DOMAIN ret.val
        /\ \A name \in outputDescriptors :
            LET v == inputs[name] IN
            /\ v = VBool(TRUE)  => ret.val[name] = VStr(_outputs_filenames[name])
            /\ v = VBool(FALSE) => ret.val[name] = Undefined
            /\ v = Undefined    => ret.val[name] = Undefined
            /\ v.t = "str"      => ret.val[name] = v

\* _list_outputs has run on an interface with one output set to true, one
\* set to false.
C2_Witness ==
    /\ ret.op = "list_outputs"
    /\ \E a, b \in outputDescriptors :
        /\ inputs[a] = VBool(TRUE) /\ ret.val[a].t = "str"
        /\ inputs[b] = VBool(FALSE) /\ ret.val[b] = Undefined

----------------------------------------------------------------------------
(* C3                                                                      *)

\* The extension the claim gives a file-like output node.
claimedExt(node) ==
    IF node.fileExtensions # "" THEN node.fileExtensions
    ELSE CASE node.nodeName = "image" -> ".nii"
           [] node.nodeName = "transform" -> ".txt"
           [] node.nodeName = "file" -> ""

\* The default filename the claim gives the output read at position i: the
\* name and extension under the directory construction ran in.
claimedDefault(i) == StartDir \o "/" \o nameAt(i) \o claimedExt(dom[i])

\* C3: the cached default filename of every output descriptor is
\* abspath(name + ext), and with the input set to true both the command
\* line and _list_outputs give exactly that path, whenever they are called.
C3_DefaultFilenameRoundTrip ==
    \A i \in compiledAt :
        nameAt(i) \in outputDescriptors =>
            /\ _outputs_filenames[nameAt(i)] = claimedDefault(i)
            /\ (test = "bound" /\ inputs[nameAt(i)] = VBool(TRUE)) =>
                /\ ret.op = "cmdline" =>
                      argsFor(ret.val, nameAt(i)) =
                          {"--" \o nameAt(i) \o " " \o claimedDefault(i)}
                /\ ret.op = "list_outputs" =>
                      ret.val[nameAt(i)] = VStr(claimedDefault(i))

\* Both calls have been made, after a change of directory, on an output
\* set to true: one state for each call.
C3_Witness ==
    /\ cwd # StartDir
    /\ \E name \in outputDescriptors :
        /\ inputs[name] = VBool(TRUE)
        /\ ret.op = "list_outputs"
        /\ ret.val[name].t = "str"

\* The command line has been synthesized after a change of directory with
\* an output set to true.
C3_WitnessCmdline ==
    /\ cwd # StartDir
    /\ \E name \in outputDescriptors :
        /\ inputs[name] = VBool(TRUE)
        /\ ret.op = "cmdline"
        /\ argsFor(ret.val, name) # {}

----------------------------------------------------------------------------
(* C4                                                                      *)

\* C4: on a synthesized command line every positional argument precedes
\* every flagged one, positional arguments are in ascending numeric order
\* of index, and flagged arguments are in declaration order.
C4_CommandOrdering ==
    ret.op = "cmdline" =>
        \A i, j \in DOMAIN ret.val :
            i < j =>
                LET pi == traits[ret.val[i].name].position
                    pj == traits[ret.val[j].name].position
                IN  /\ pi = <<>> => pj = <<>>
                    /\ (pi # <<>> /\ pj # <<>>) => numberOf(pi[1]) <= numberOf(pj[1])
                    /\ (pi = <<>> /\ pj = <<>>) =>
                          declaredAt(ret.val[i].name) < declaredAt(ret.val[j].name)

----------------------------------------------------------------------------
(* C5                                                                      *)

\* The parameter nodes of the document read so far.
paramNodesAt == {i \in DOMAIN dom : dom[i].nodeName \notin SkippedNodeNames}

\* A node a valid document may hold: of a known kind, with its required
\* name child and, for an enumeration, at least one element; longflag,
\* index, description and channel are optional.
validNode(node) ==
    /\ node.name # <<>>
    /\ node.nodeName \in ScalarNodeNames \cup VectorNodeNames
    /\ node.nodeName = "string-enumeration" => node.element # <<>>

\* A valid node with none of its optional children left out where the loop
\* reads them: a description, and on a file kind a channel.
furnishedNode(node) ==
    /\ validNode(node)
    /\ node.description # <<>>
    /\ node.nodeName \in FileNodeNames => node.channel # <<>>

\* C5: on a valid document construction succeeds, and it creates exactly
\* one input field for every child node that is no label, description,
\* text or comment node.  Stated for the valid documents whose nodes carry
\* a description and, on file kinds, a channel.
C5_OneDescriptorPerNode ==
    (\A i \in paramNodesAt : furnishedNode(dom[i])) =>
        /\ status # "failed"
        /\ Cardinality(DOMAIN traits) = Cardinality(paramNodesAt)

----------------------------------------------------------------------------
(* C6                                                                      *)

\* C6: when a parameter node has no name child, construction has failed
\* with the exception of the failed lookup, the caller holds no object, and
\* none of the calls on the object can be made.
C6_MalformedSchemaFatal ==
    (\E i \in paramNodesAt : dom[i].name = <<>>) =>
        /\ status = "failed"
        /\ error = "IndexError"
        /\ test = "unbound"
        /\ ~ENABLED (SetInput \/ GetInput \/ ListOutputs \/ Cmdline)

\* A node without a name was read after a node that compiled to an output
\* field with a cached filename.
C6_Witness ==
    /\ Len(dom) > 1
    /\ dom[Len(dom)].nodeName \notin SkippedNodeNames
    /\ dom[Len(dom)].name = <<>>
    /\ DOMAIN _outputs_filenames # {}
    /\ status = "failed"

----------------------------------------------------------------------------
(* C7                                                                      *)

\* C7: when construction completes every input field holds Undefined, which
\* is none of false, zero and the empty string; a field that holds
\* Undefined keeps it over every step but an assignment by the caller; and
\* reading a field changes no field.
C7_InitiallyUndefined ==
    [][ /\ (status = "constructing" /\ status' = "ready") =>
            \A name \in DOMAIN traits' :
                /\ name \in DOMAIN inputs'
                /\ inputs'[name] = Undefined
                /\ inputs'[name] \notin {VBool(FALSE), VInt(0), VStr("")}
        /\ status = "ready" =>
            \A name \in DOMAIN inputs :
                (inputs[name] = Undefined /\ inputs'[name] # Undefined) => ret'.op = "set"
        /\ ret'.op = "get" => inputs' = inputs
      ]_vars

\* A field was read and found Undefined while another field had been
\* assigned.
C7_Witness ==
    /\ status = "ready"
    /\ ret.op = "get"
    /\ ret.val = Undefined
    /\ \E name \in DOMAIN inputs : inputs[name] # Undefined

----------------------------------------------------------------------------
(* C8                                                                      *)

----------------------------------------------------------------------------
(* C9                                                                      *)

\* The format the claim gives a scalar kind.
claimedFormat(kind) ==
    CASE kind = "integer" -> "%d"
      [] kind \in {"float", "double"} -> "%f"
      [] kind \in {"string", "file", "image", "transform"} -> "%s"

\* C9: the descriptor compiled from a -vector node has the separator ','
\* and the format of its scalar base kind; the descriptor compiled from
\* any other node has no separator.
C9_VectorDescriptors ==
    \A i \in compiledAt :
        LET trait == traits[nameAt(i)] IN
        IF \E b \in ScalarNodeNames : dom[i].nodeName = b \o "-vector"
        THEN /\ trait.sep = <<",">>
             /\ \A b \in {"integer", "float", "double", "string", "file", "image", "transform"} :
                    dom[i].nodeName = b \o "-vector" => trait.argstr[2] = claimedFormat(b)
        ELSE trait.sep = <<>>

\* An integer-vector node and a scalar node have both been compiled.
C9_Witness ==
    /\ \E i \in compiledAt : dom[i].nodeName = "integer-vector"
    /\ \E i \in compiledAt : dom[i].nodeName = "integer"

----------------------------------------------------------------------------
(* C10                                                                     *)

\* C10: every parameter node of kind file, directory, image or transform
\* whose channel is 'output', and no other node, has an input field that
\* takes a boolean or a path, an entry in the output-node list and a cached
\* default filename; the names with a cached filename are the names of the
\* output-node list.  Stated for the nodes that carry a name and a
\* description, where no other lookup of the loop can fail.
C10_OutputBinding ==
    /\ DOMAIN _outputs_filenames = outputNames
    /\ \A i \in paramNodesAt :
        (dom[i].name # <<>> /\ dom[i].description # <<>>) =>
            LET isOut == /\ dom[i].nodeName \in FileNodeNames
                         /\ dom[i].channel = <<"output">>
                recorded == /\ nameAt(i) \in DOMAIN traits
                            /\ traits[nameAt(i)].type = "Either"
                            /\ nameAt(i) \in outputNames
                            /\ nameAt(i) \in DOMAIN _outputs_filenames
                none == /\ nameAt(i) \in DOMAIN traits => traits[nameAt(i)].type # "Either"
                        /\ nameAt(i) \notin outputNames
                        /\ nameAt(i) \notin DOMAIN _outputs_filenames
            IN  IF isOut THEN recorded ELSE none

----------------------------------------------------------------------------
(* C11                                                                     *)

\* The kinds both lookup tables of the loop know, so that a node of such a
\* kind can fail only on a child it lacks.
tabledKind(nodeName) ==
    nodeName \in {"integer", "float", "double", "boolean", "string",
                  "string-enumeration", "file", "image", "transform"}

\* C11: a parameter node with a name child compiles whatever subset of
\* longflag, index, description and channel it carries; without a channel
\* it is an input; and its descriptor's description is the text of the
\* description child whenever that child is present.
C11_OptionalChildren ==
    \A i \in paramNodesAt :
        (dom[i].name # <<>> /\ tabledKind(dom[i].nodeName)) =>
            /\ i \in compiledAt
            /\ nameAt(i) \in DOMAIN traits
            /\ dom[i].channel = <<>> =>
                  /\ nameAt(i) \notin outputNames
                  /\ traits[nameAt(i)].type # "Either"
            /\ dom[i].description # <<>> =>
                  traits[nameAt(i)].desc = dom[i].description

====
